---- MODULE Spec2Model ----
(***************************************************************************)
(* GitScribe: the burndown aggregation of lib/gitscribe.js                 *)
(* (GitScribe.getTimeSpent and GitScribe.generateBurndownChart) and the    *)
(* effort callbacks the command line installs (getStorypoints).            *)
(*                                                                         *)
(* Representation.                                                         *)
(*  - A timestamp is the number of milliseconds since 2020-02-12T00:00Z    *)
(*    (what `new Date(x)` yields, shifted by a fixed epoch so that the     *)
(*    values fit the model checker's integers).                            *)
(*  - A JavaScript number that may also be NaN, null or an array hole is a *)
(*    cell [k, v]: Num(v), NaN, Null, Hole.                                *)
(*  - An effort quantity (hours in the code) is held exactly, as a count   *)
(*    of 1/UnitsPerHour hours; a quotient is held as a fraction [k, n, d]. *)
(*  - A JavaScript array is a function on 0..length-1.                     *)
(*  - A note body is the sequence of its space-separated words.            *)
(***************************************************************************)
EXTENDS Integers, Sequences, FiniteSets, TLC

\* ------------------------------------------------------------------ bounds
\* Longest window: dueDate is at most MaxDueDay days after startDate.
MaxDueDay == 4
\* Largest number of issues in milestoneIssues.
MaxIssues == 2

\* ------------------------------------------------------- program constants
MILLISECONDS_IN_DAY == 24 * 60 * 60 * 1000
\* minutes / 60: one hour is UnitsPerHour effort units.
UnitsPerHour == 60
\* "On GitLab a day equals eight hours"
HoursPerDay == 8

Day(k) == k * MILLISECONDS_IN_DAY
\* The timestamp of 00:00Z on the k-th day after 2020-01-31.
DateAt(k) == Day(k - 12)
QuarterDay == MILLISECONDS_IN_DAY \div 4

\* ---------------------------------------------------------------- numbers
Num(v) == [k |-> "num", v |-> v]
NaN == [k |-> "NaN", v |-> 0]
Null == [k |-> "null", v |-> 0]
Hole == [k |-> "hole", v |-> 0]
IsNum(c) == c.k = "num"

\* Math.round(t / MILLISECONDS_IN_DAY): the nearest integer, halves upwards.
RoundDays(t) == (t + (MILLISECONDS_IN_DAY \div 2)) \div MILLISECONDS_IN_DAY
\* Math.ceil(t / MILLISECONDS_IN_DAY + 1)
CeilDaysPlusOne(t) == (0 - ((0 - t) \div MILLISECONDS_IN_DAY)) + 1
Max(a, b) == IF a >= b THEN a ELSE b

\* a + b on JavaScript numbers: undefined (a hole) or NaN on either side is NaN.
Plus(a, b) == IF IsNum(a) /\ IsNum(b) THEN Num(a.v + b.v) ELSE NaN
Minus(a, b) == IF IsNum(a) /\ IsNum(b) THEN Num(a.v - b.v) ELSE NaN

\* ----------------------------------------------------------------- arrays
\* new Array(n).fill(c)
NewArray(len, c) == [i \in 0..(len - 1) |-> c]
Length(arr) == Cardinality(DOMAIN arr)

\* arr[i] as an rvalue: undefined beyond the length and in a hole.
Get(arr, i) == IF i \in DOMAIN arr THEN arr[i] ELSE Hole

\* arr[i] += c for an index i >= 0. Writing at or beyond the length grows the
\* array, leaving holes in between.
PlusAssign(arr, i, c) ==
    [j \in 0..(Max(Length(arr), i + 1) - 1) |->
        IF j = i THEN Plus(Get(arr, i), c) ELSE Get(arr, j)]

\* arr.slice(0, n).reduce((sum, x) => sum + x, 0): reduce skips holes.
RECURSIVE SumFirst(_, _)
SumFirst(arr, count) ==
    IF count <= 0 THEN Num(0)
    ELSE IF (count - 1) \notin DOMAIN arr THEN SumFirst(arr, count - 1)
    ELSE IF arr[count - 1].k = "hole" THEN SumFirst(arr, count - 1)
    ELSE Plus(SumFirst(arr, count - 1), arr[count - 1])

\* arr.reduce((sum, x) => sum + x, 0)
SumAll(arr) == SumFirst(arr, Length(arr))

\* ------------------------------------------------------------- note bodies
\* The decimal numbers and the dates a body can carry are found by formatting
\* candidates and comparing, so Number(...) and new Date(...) are computed from
\* the text and not read off a side field.
MaxNumber == 30
MaxDateDay == 25

TwoDigits(num) == IF num < 10 THEN "0" \o ToString(num) ELSE ToString(num)
\* The YYYY-MM-DD text of the k-th day after 2020-01-31.
DateWord(k) == IF k = 0 THEN "2020-01-31" ELSE "2020-02-" \o TwoDigits(k)
\* Every date text with its time value, formatted once.
DateTable == { <<DateWord(k), DateAt(k)>> : k \in 0..MaxDateDay }
DateWords == { p[1] : p \in DateTable }
\* /\d{4}-\d{2}-\d{2}/
IsDateWord(w) == w \in DateWords
\* new Date("YYYY-MM-DD").getTime()
ParseDate(w) == (CHOOSE p \in DateTable : p[1] = w)[2]

\* Every amount text of a unit with its number, formatted once.
DayTable == { <<ToString(num) \o "d", num>> : num \in 0..MaxNumber }
HourTable == { <<ToString(num) \o "h", num>> : num \in 0..MaxNumber }
\* /\d+m/ is not anchored: it also finds the digits and the m of a month
\* amount such as 1mo.
MinuteTable ==
    { <<ToString(num) \o "m", num>> : num \in 0..MaxNumber }
        \cup { <<ToString(num) \o "mo", num>> : num \in 0..MaxNumber }
AmountTable(unit) ==
    CASE unit = "d" -> DayTable [] unit = "h" -> HourTable [] OTHER -> MinuteTable
DayWords == { p[1] : p \in DayTable }
HourWords == { p[1] : p \in HourTable }
MinuteWords == { p[1] : p \in MinuteTable }
\* word.match(/\d+<unit>/)
IsAmount(w, unit) ==
    w \in (CASE unit = "d" -> DayWords [] unit = "h" -> HourWords [] OTHER -> MinuteWords)
\* Number(match[0].slice(0, -1))
AmountOf(w, unit) == (CHOOSE p \in AmountTable(unit) : p[1] = w)[2]

\* body.match(/^added.*at \d{4}-\d{2}-\d{2}$/) !== null
IsSpendingBody(body) ==
    /\ Len(body) >= 3
    /\ body[1] = "added"
    /\ body[Len(body) - 1] = "at"
    /\ IsDateWord(body[Len(body)])

\* body.match(/added (.*) at/)[1]: the words between "added" and the last "at".
HumanReadableTime(body) == SubSeq(body, 2, Len(body) - 2)

\* humanReadableTime.match(/\d+<unit>/): the first match, 0 when there is none.
Component(words, unit) ==
    IF \E i \in 1..Len(words) : IsAmount(words[i], unit)
    THEN LET i == CHOOSE i \in 1..Len(words) :
                      /\ IsAmount(words[i], unit)
                      /\ \A j \in 1..(i - 1) : ~IsAmount(words[j], unit)
         IN  AmountOf(words[i], unit)
    ELSE 0

\* Mutant of TotalHours: a day counts 24 hours.
TotalHoursOfFullDays(body) ==
    LET t == HumanReadableTime(body)
    IN  (Component(t, "d") * 24 * UnitsPerHour)
        + (Component(t, "h") * UnitsPerHour)
        + Component(t, "m")

\* totalHours = (days * 8) + hours + (minutes / 60), in effort units.
TotalHours(body) ==
    LET t == HumanReadableTime(body)
    IN  (Component(t, "d") * HoursPerDay * UnitsPerHour)
        + (Component(t, "h") * UnitsPerHour)
        + Component(t, "m")

\* `changed milestone to %"${milestone.title}"`
TitleBody(m) == <<"changed", "milestone", "to", "%\"" \o m.title \o "\"">>
\* `changed milestone to %${milestone.iid}`
IidBody(m) == <<"changed", "milestone", "to", "%" \o ToString(m.iid)>>

\* ------------------------------------------------------------------ inputs
StartDate == DateAt(1)

\* Milestones as fetchMilestones returns them: day-granular dates. dueDate is
\* also drawn before startDate (down to two days) to cover invalid windows.
Milestones ==
    { [title |-> "v1.0", iid |-> 7, startDate |-> StartDate, dueDate |-> StartDate + Day(j)] :
        j \in (0 - 2)..MaxDueDay }

Options == [includeOpen : BOOLEAN, useEstimate : BOOLEAN, storypoints : BOOLEAN]

Note(body, system, createdAt, updatedAt) ==
    [body |-> body, system |-> system, createdAt |-> createdAt, updatedAt |-> updatedAt]
Comment(note) == [notes |-> <<note>>]
SystemNote(body, at) == Comment(Note(body, TRUE, at, at))
UserNote(body, at) == Comment(Note(body, FALSE, at, at))

TheMilestone == [title |-> "v1.0", iid |-> 7]
OtherMilestoneBody == <<"changed", "milestone", "to", "%\"v2.0\"">>

\* The assignment on the first day of the window.
FirstDayEvidence == <<SystemNote(TitleBody(TheMilestone), StartDate)>>

\* Discussions about the milestone assignment: none; a user's note only; on the
\* first day; a day and a half in; before the start; after every due date; an
\* older and a newer assignment in both orders; a user's note and a note about
\* another milestone that are newer than the assignment.
Evidence ==
    { <<>>,
      <<UserNote(TitleBody(TheMilestone), StartDate)>>,
      FirstDayEvidence,
      <<SystemNote(IidBody(TheMilestone), StartDate + Day(1) + (2 * QuarterDay))>>,
      <<SystemNote(TitleBody(TheMilestone), StartDate - (Day(1) + (3 * QuarterDay)))>>,
      <<SystemNote(TitleBody(TheMilestone), StartDate + Day(MaxDueDay + 2))>>,
      <<SystemNote(TitleBody(TheMilestone), StartDate + Day(1)),
        SystemNote(IidBody(TheMilestone), StartDate + Day(3))>>,
      <<SystemNote(IidBody(TheMilestone), StartDate + Day(3)),
        SystemNote(TitleBody(TheMilestone), StartDate + Day(1))>>,
      <<UserNote(TitleBody(TheMilestone), StartDate + Day(3)),
        SystemNote(TitleBody(TheMilestone), StartDate + Day(1))>>,
      <<SystemNote(OtherMilestoneBody, StartDate + Day(3)),
        SystemNote(TitleBody(TheMilestone), StartDate)>> }

\* issue.closedAt: null (open), before the start, early on the first day, at
\* the end of the second day, and half a day later.
ClosedAts ==
    { Null, Num(StartDate - Day(1)), Num(StartDate + QuarterDay),
      Num(StartDate + Day(2)), Num(StartDate + Day(2) + (2 * QuarterDay)) }

SpentBody(duration, k) == <<"added">> \o duration \o <<"of", "time", "spent", "at", DateWord(k)>>

\* What was logged and labelled: nothing; 1d 2h 30m on 2020-02-03 with three
\* storypoints; 2h on the day before the start; 15m on a date after every due
\* date, with five storypoints. totalTimeSpent is the logged time in seconds.
EffortRecords ==
    { [spent |-> <<>>, labels |-> <<>>, totalTimeSpent |-> 0],
      [spent |-> <<SystemNote(SpentBody(<<"1d", "2h", "30m">>, 3), StartDate + Day(2))>>,
       labels |-> <<"bug", "storypoints::3">>, totalTimeSpent |-> 37800],
      [spent |-> <<SystemNote(SpentBody(<<"2h">>, 0), StartDate)>>,
       labels |-> <<>>, totalTimeSpent |-> 7200],
      [spent |-> <<SystemNote(SpentBody(<<"15m">>, MaxDueDay + 3), StartDate)>>,
       labels |-> <<"storypoints::5">>, totalTimeSpent |-> 900] }

Issue(evidence, closedAt, e) ==
    [discussion |-> e.spent \o evidence,
     closedAt |-> closedAt,
     labels |-> e.labels,
     timeStats |-> [totalTimeSpent |-> e.totalTimeSpent]]

\* The issues milestoneIssues is drawn from: every close time, every effort
\* record and every discussion, each varied against a closed and an open issue
\* with the 2020-02-03 spending.
MainEffort == CHOOSE e \in EffortRecords : e.totalTimeSpent = 37800
NoLoggedEffort == CHOOSE e \in EffortRecords : e.totalTimeSpent = 0
ByCloseTime ==
    { Issue(FirstDayEvidence, c, e) : c \in ClosedAts, e \in {NoLoggedEffort, MainEffort} }
ByEffort ==
    { Issue(FirstDayEvidence, c, e) : c \in {Null, Num(StartDate + Day(2))}, e \in EffortRecords }
ByEvidence ==
    { Issue(d, c, MainEffort) : d \in Evidence, c \in {Null, Num(StartDate + Day(2))} }
Issues == { i \in ByCloseTime \cup ByEffort \cup ByEvidence : i.timeStats.totalTimeSpent >= 0 }

\* ------------------------------------------------------------ getTimeSpent
\* Mutant of IsCountedSpending: the end of the interval is excluded.
CountedBeforeEnd(comment, startDate, endDate) ==
    LET note == comment.notes[1]
    IN  /\ IsSpendingBody(note.body)
        /\ note.system
        /\ note.createdAt >= startDate
        /\ note.createdAt < endDate

\* The discussion entries that are spendings by the system inside the interval.
IsCountedSpending(comment, startDate, endDate) ==
    LET note == comment.notes[1]
    IN  /\ IsSpendingBody(note.body)
        /\ note.system
        /\ note.createdAt >= startDate
        /\ note.createdAt <= endDate

\* What .map(comment => ...) returns for a spending: its date and totalHours.
Spending(comment) ==
    LET body == comment.notes[1].body
    IN  [date |-> ParseDate(body[Len(body)]), totalHours |-> TotalHours(body)]

RECURSIVE MapSpending(_)
MapSpending(comments) ==
    IF comments = <<>> THEN <<>>
    ELSE <<Spending(Head(comments))>> \o MapSpending(Tail(comments))

\* issue.discussion.filter(...).map(...)
Spendings(discussion, startDate, endDate) ==
    MapSpending(SelectSeq(discussion, LAMBDA c : IsCountedSpending(c, startDate, endDate)))

\* spendings.reduce((total, spending) => total + spending.totalHours, 0)
RECURSIVE SumTotalHours(_)
SumTotalHours(spendings) ==
    IF spendings = <<>> THEN 0
    ELSE Head(spendings).totalHours + SumTotalHours(Tail(spendings))

\* timeSpent.days[t] = (timeSpent[t] || 0) + spending.totalHours: the old value
\* is read from timeSpent, not from timeSpent.days, and timeSpent never has a
\* property t, so each assignment stores the spending's own totalHours.
RECURSIVE DaysOf(_)
DaysOf(spendings) ==
    IF spendings = <<>> THEN <<>>
    ELSE LET last == spendings[Len(spendings)]
             rest == DaysOf(SubSeq(spendings, 1, Len(spendings) - 1))
         IN  (last.date :> (0 + last.totalHours)) @@ rest

getTimeSpent(anIssue, startDate, endDate) ==
    LET spendings == Spendings(anIssue.discussion, startDate, endDate)
    IN  [total |-> SumTotalHours(spendings), days |-> DaysOf(spendings)]

\* ---------------------------------------------------------- getStorypoints
\* label.indexOf('storypoints::') === 0, then Number(label.replace(...)).
StorypointsTable == { <<"storypoints::" \o ToString(num), num>> : num \in 0..MaxNumber }
StorypointsLabels == { p[1] : p \in StorypointsTable }
IsStorypointsLabel(label) == label \in StorypointsLabels
StorypointsOf(label) == (CHOOSE p \in StorypointsTable : p[1] = label)[2]

getStorypoints(anIssue) ==
    IF \E i \in 1..Len(anIssue.labels) : IsStorypointsLabel(anIssue.labels[i])
    THEN LET i == CHOOSE i \in 1..Len(anIssue.labels) :
                      /\ IsStorypointsLabel(anIssue.labels[i])
                      /\ \A j \in 1..(i - 1) : ~IsStorypointsLabel(anIssue.labels[j])
         IN  [total |-> StorypointsOf(anIssue.labels[i]) * UnitsPerHour, days |-> <<>>]
    ELSE [total |-> 0, days |-> <<>>]

\* --------------------------------------------------- generateBurndownChart
\* Mutant of SortNewestFirst: the sort is left out.
Unsorted(discussion) == discussion

\* discussion.sort((a, b) => new Date(b.notes[0].updatedAt) - new Date(a.notes[0].updatedAt)):
\* newest first, entries with equal timestamps keep their order.
\* c put behind the entries of sorted that are at least as new.
InsertNewestFirst(sorted, c) ==
    SelectSeq(sorted, LAMBDA x : x.notes[1].updatedAt >= c.notes[1].updatedAt)
        \o <<c>>
        \o SelectSeq(sorted, LAMBDA x : x.notes[1].updatedAt < c.notes[1].updatedAt)

RECURSIVE SortNewestFirst(_)
SortNewestFirst(discussion) ==
    IF discussion = <<>> THEN <<>>
    ELSE InsertNewestFirst(SortNewestFirst(SubSeq(discussion, 1, Len(discussion) - 1)),
                           discussion[Len(discussion)])

\* comment.notes.some(note => changedMilestone && isBySystem)
MentionsMilestoneChange(comment, aMilestone) ==
    \E i \in 1..Len(comment.notes) :
        /\ \/ comment.notes[i].body = TitleBody(aMilestone)
           \/ comment.notes[i].body = IidBody(aMilestone)
        /\ comment.notes[i].system

\* .find(...): the index of the first such comment, 0 when find returns undefined.
FindMilestoneChange(sorted, aMilestone) ==
    IF \E i \in 1..Len(sorted) : MentionsMilestoneChange(sorted[i], aMilestone)
    THEN CHOOSE i \in 1..Len(sorted) :
             /\ MentionsMilestoneChange(sorted[i], aMilestone)
             /\ \A j \in 1..(i - 1) : ~MentionsMilestoneChange(sorted[j], aMilestone)
    ELSE 0

\* Math.max(0, Math.round((new Date(comment.notes[0].updatedAt) - startDate) / MILLISECONDS_IN_DAY))
DayAdded(comment, startDate) == Max(0, RoundDays(comment.notes[1].updatedAt - startDate))

\* issue.closedAt ? Math.round((new Date(issue.closedAt) - startDate) / MILLISECONDS_IN_DAY) : null
DayClosed(anIssue, startDate) ==
    IF anIssue.closedAt = Null THEN Null ELSE Num(RoundDays(anIssue.closedAt.v - startDate))

\* Mutant of AddedAfterDueDate: > in place of >=.
AddedStrictlyAfter(added, nDays) == added > nDays

\* dayAdded >= days
AddedAfterDueDate(added, nDays) == added >= nDays
\* dayClosed < 0 (null < 0 is false)
ClosedBeforeStart(closed) == closed # Null /\ closed.v < 0
\* dayClosed !== null && dayClosed <= days
WasClosedWithinMilestone(closed, nDays) == closed # Null /\ closed.v <= nDays
\* Mutant of IsOpenAndShouldBeIncluded: the includeOpen option is not read.
IsOpen(closed, opts) == closed = Null

\* dayClosed === null && options.includeOpen
IsOpenAndShouldBeIncluded(closed, opts) == closed = Null /\ opts.includeOpen

\* The options the command line passes: getStorypoints for both callbacks with
\* --storypoints, otherwise the defaults of generateBurndownChart.
getEffort(opts, anIssue, startDate, dueDate) ==
    IF opts.storypoints THEN getStorypoints(anIssue) ELSE getTimeSpent(anIssue, startDate, dueDate)
getEffortEstimate(opts, anIssue) ==
    IF opts.storypoints THEN getStorypoints(anIssue)
    ELSE [total |-> (anIssue.timeStats.totalTimeSpent * UnitsPerHour) \div (60 * 60), days |-> <<>>]

\* Math.max(0, Math.round((Number(date) - startDate) / MILLISECONDS_IN_DAY))
SpentDay(date, startDate) == Max(0, RoundDays(date - startDate))

\* for (const date of Object.keys(effort.days)) effortSpentByDay[day] += effort.days[date]
RECURSIVE FoldDays(_, _, _, _)
FoldDays(arr, ledgerDays, dates, startDate) ==
    IF dates = {} THEN arr
    ELSE LET date == CHOOSE d \in dates : \A e \in dates : d <= e
         IN  FoldDays(PlusAssign(arr, SpentDay(date, startDate), Num(ledgerDays[date])),
                      ledgerDays, dates \ {date}, startDate)

\* ------------------------------------------------------------------- state
VARIABLES
    pc,                    \* "start", "loop", "resolved" or "rejected"
    error,                 \* what the returned promise is rejected with
    milestone, options,    \* the arguments
    n,                     \* issues of milestoneIssues taken so far
    issue,                 \* the loop variable
    branch,                \* how the last iteration ended
    days,
    issuesOpenedByDay, issuesClosedByDay, effortSpentByDay, effortEstimatedByDay,
    effortSpentByDayNull,  \* effortSpentByDay["null"], a property beside the elements
    dayAdded, dayClosed, effort,
    totalEffort, remainingEffort, completedTasks, idealBurndown, remainingTasks, labels,
    \* A call of getTimeSpent on its own:
    tsPc,                  \* "idle", "called" or "returned"
    argIssue, argStartDate, argEndDate,
    tsSpendings,           \* the const spendings
    timeSpent,             \* the object returned
    \* A call of fetchAndMergeIssueDiscussions:
    fmPc,                  \* "idle", "called", "awaiting", "resolved" or "rejected"
    fmIssues,              \* the issues array the caller passed
    apiCalls,              \* the calls of api.IssueDiscussions.all made so far
    fetchState             \* per issue: "none", "pending", "merged" or "failed"

arrays == <<issuesOpenedByDay, issuesClosedByDay, effortSpentByDay, effortEstimatedByDay,
            effortSpentByDayNull>>
locals == <<issue, branch, dayAdded, dayClosed, effort>>
series == <<totalEffort, remainingEffort, completedTasks, idealBurndown, remainingTasks, labels>>
chart == <<pc, error, milestone, options, n, days, arrays, locals, series>>
call == <<tsPc, argIssue, argStartDate, argEndDate, tsSpendings, timeSpent>>
merge == <<fmPc, fmIssues, apiCalls, fetchState>>
vars == <<chart, call, merge>>

NoIssue == [discussion |-> <<>>, closedAt |-> Null, labels |-> <<>>,
            timeStats |-> [totalTimeSpent |-> 0]]
NoEffort == [total |-> 0, days |-> <<>>]
NoArray == NewArray(0, Hole)

\* No call of getTimeSpent on its own is in progress.
CallIdle ==
    /\ tsPc = "idle"
    /\ argIssue = NoIssue
    /\ argStartDate = 0
    /\ argEndDate = 0
    /\ tsSpendings = <<>>
    /\ timeSpent = NoEffort

\* No call of fetchAndMergeIssueDiscussions is in progress.
MergeIdle ==
    /\ fmPc = "idle"
    /\ fmIssues = <<>>
    /\ apiCalls = <<>>
    /\ fetchState = <<>>

Init ==
    /\ CallIdle
    /\ MergeIdle
    /\ pc = "start"
    /\ error = "none"
    /\ milestone \in Milestones
    /\ options \in Options
    /\ n = 0
    /\ issue = NoIssue
    /\ branch = "none"
    /\ days = 0
    /\ issuesOpenedByDay = NoArray
    /\ issuesClosedByDay = NoArray
    /\ effortSpentByDay = NoArray
    /\ effortEstimatedByDay = NoArray
    /\ effortSpentByDayNull = Hole
    /\ dayAdded = Null
    /\ dayClosed = Null
    /\ effort = NoEffort
    /\ totalEffort = Num(0)
    /\ remainingEffort = NoArray
    /\ completedTasks = NoArray
    /\ idealBurndown = NoArray
    /\ remainingTasks = NoArray
    /\ labels = <<>>

\* const days = Math.ceil((dueDate - startDate) / MILLISECONDS_IN_DAY + 1)
Days(m) == CeilDaysPlusOne(m.dueDate - m.startDate)

\* The four `new Array(days).fill(0)`. new Array of a negative length throws
\* RangeError, which rejects the promise of the async function.
Allocate ==
    /\ pc = "start"
    /\ days' = Days(milestone)
    /\ IF Days(milestone) < 0
       THEN /\ pc' = "rejected"
            /\ error' = "RangeError"
            /\ UNCHANGED arrays
       ELSE /\ pc' = "loop"
            /\ error' = error
            /\ issuesOpenedByDay' = NewArray(Days(milestone), Num(0))
            /\ issuesClosedByDay' = NewArray(Days(milestone), Num(0))
            /\ effortSpentByDay' = NewArray(Days(milestone), Num(0))
            /\ effortEstimatedByDay' = NewArray(Days(milestone), Num(0))
            /\ effortSpentByDayNull' = effortSpentByDayNull
    /\ UNCHANGED <<milestone, options, n, locals, series, call, merge>>

\* Mutant of SpentAfter: the total of a ledger without days is dropped.
SpentPerDayOnly(arr, ledger, closed, startDate) ==
    FoldDays(arr, ledger.days, DOMAIN ledger.days, startDate)

\* effortSpentByDay after the `if (wasClosedWithinMilestone || isOpenAndShouldBeIncluded)`
\* block: the per-day entries, and the whole total at dayClosed when there are none.
SpentAfter(arr, ledger, closed, startDate) ==
    LET perDay == FoldDays(arr, ledger.days, DOMAIN ledger.days, startDate)
    IN  IF DOMAIN ledger.days = {} /\ closed # Null
        THEN PlusAssign(perDay, closed.v, Num(ledger.total))
        ELSE perDay

\* effortSpentByDay[null] += effort.total assigns the property "null".
SpentNullAfter(prop, ledger, closed) ==
    IF DOMAIN ledger.days = {} /\ closed = Null THEN Plus(prop, Num(ledger.total)) ELSE prop

\* The loop body from `if (dayAdded >= days || dayClosed < 0) continue` on.
Account(added, closed, estimate, ledger, within) ==
    /\ pc' = "loop"
    /\ error' = error
    /\ dayAdded' = Num(added)
    /\ dayClosed' = closed
    /\ IF AddedAfterDueDate(added, days) \/ ClosedBeforeStart(closed)
       THEN /\ branch' = "skipped"
            /\ UNCHANGED <<arrays, effort>>
       ELSE /\ issuesOpenedByDay' = PlusAssign(issuesOpenedByDay, added, Num(1))
            /\ effortEstimatedByDay' = PlusAssign(effortEstimatedByDay, added, Num(estimate))
            /\ issuesClosedByDay' =
                   IF within THEN PlusAssign(issuesClosedByDay, closed.v, Num(1))
                   ELSE issuesClosedByDay
            /\ IF within \/ IsOpenAndShouldBeIncluded(closed, options)
               THEN /\ branch' = "folded"
                    /\ effort' = ledger
                    /\ effortSpentByDay' =
                           SpentAfter(effortSpentByDay, ledger, closed, milestone.startDate)
                    /\ effortSpentByDayNull' =
                           SpentNullAfter(effortSpentByDayNull, ledger, closed)
               ELSE /\ branch' = "counted"
                    /\ UNCHANGED <<effort, effortSpentByDay, effortSpentByDayNull>>

\* The loop body for the issue with its discussion sorted, the comment that
\* find returns being sortedIssue.discussion[at] (undefined when at = 0).
Visit(sortedIssue, at, closed) ==
    /\ issue' = sortedIssue
    /\ n' = n + 1
    /\ UNCHANGED <<milestone, options, days, series, call, merge>>
    /\ IF at = 0
       THEN \* lastMilestoneChangeComment is undefined: reading .notes throws
            /\ pc' = "rejected"
            /\ error' = "TypeError"
            /\ branch' = "threw"
            /\ UNCHANGED <<arrays, dayAdded, dayClosed, effort>>
       ELSE Account(DayAdded(sortedIssue.discussion[at], milestone.startDate),
                    closed,
                    getEffortEstimate(options, sortedIssue).total,
                    getEffort(options, sortedIssue, milestone.startDate, milestone.dueDate),
                    WasClosedWithinMilestone(closed, days))

\* The loop body after issue.discussion.sort(...).
WithSortedDiscussion(sortedIssue) ==
    Visit(sortedIssue,
          FindMilestoneChange(sortedIssue.discussion, milestone),
          DayClosed(sortedIssue, milestone.startDate))

\* One iteration of `for (const issue of milestoneIssues)`.
Iteration(i) == WithSortedDiscussion([i EXCEPT !.discussion = SortNewestFirst(i.discussion)])

NextIssue ==
    /\ pc = "loop"
    /\ n < MaxIssues
    /\ \E i \in Issues : Iteration(i)

\* The cumulative series, computed once after the loop.
TotalEffortOf(opts, estimated, spent) ==
    IF opts.useEstimate THEN SumAll(estimated) ELSE SumAll(spent)

\* Mutant of RemainingEffortOf: the estimate branch is never taken.
RemainingOfSpentOnly(opts, nDays, estimated, spent) ==
    [i \in 0..(nDays - 1) |-> Minus(SumAll(spent), SumFirst(spent, i + 1))]

RemainingEffortOf(opts, nDays, estimated, spent) ==
    IF opts.useEstimate
    THEN [i \in 0..(nDays - 1) |-> Minus(SumFirst(estimated, i + 1), SumFirst(spent, i + 1))]
    ELSE [i \in 0..(nDays - 1) |-> Minus(SumAll(spent), SumFirst(spent, i + 1))]

\* totalEffort - ((totalEffort / (days - 1)) * i) as an exact fraction. With
\* days = 1 the quotient is Infinity or NaN and its product with i = 0 is NaN.
NaNFraction == [k |-> "NaN", n |-> 0, d |-> 1]
Fraction(num, den) == [k |-> "num", n |-> num, d |-> den]
\* Mutant of IdealAt: the effort is spread over days instead of days - 1.
IdealOverDays(total, nDays, i) ==
    IF ~IsNum(total) THEN [k |-> "NaN", n |-> 0, d |-> 1]
    ELSE [k |-> "num", n |-> (total.v * nDays) - (total.v * i), d |-> nDays]

IdealAt(total, nDays, i) ==
    IF (~IsNum(total)) \/ nDays - 1 = 0 THEN NaNFraction
    ELSE Fraction((total.v * (nDays - 1)) - (total.v * i), nDays - 1)

IdealBurndownOf(total, nDays) == [i \in 0..(nDays - 1) |-> IdealAt(total, nDays, i)]

\* Mutant of RemainingTasksOf: the closed items are not subtracted.
OpenedSoFar(nDays, opened, closed) ==
    [i \in 0..(nDays - 1) |-> SumFirst(opened, i + 1)]

RemainingTasksOf(nDays, opened, closed) ==
    [i \in 0..(nDays - 1) |-> Minus(SumFirst(opened, i + 1), SumFirst(closed, i + 1))]

\* `Day ${day + 1}`
LabelsOf(nDays) == [i \in 0..(nDays - 1) |-> "Day " \o ToString(i + 1)]

\* milestoneIssues is exhausted: the series are derived and the chart rendered.
Derive ==
    /\ pc = "loop"
    /\ pc' = "resolved"
    /\ totalEffort' = TotalEffortOf(options, effortEstimatedByDay, effortSpentByDay)
    /\ remainingEffort' = RemainingEffortOf(options, days, effortEstimatedByDay, effortSpentByDay)
    /\ completedTasks' = issuesClosedByDay
    /\ idealBurndown' =
           IdealBurndownOf(TotalEffortOf(options, effortEstimatedByDay, effortSpentByDay), days)
    /\ remainingTasks' = RemainingTasksOf(days, issuesOpenedByDay, issuesClosedByDay)
    /\ labels' = LabelsOf(days)
    /\ UNCHANGED <<error, milestone, options, n, days, arrays, locals, call, merge>>

Next == Allocate \/ NextIssue \/ Derive

Spec == Init /\ [][Next]_vars

\* ------------------------------------------------- getTimeSpent on its own
\* The longest discussion handed to getTimeSpent.
MaxNotes == 2

WindowStart == DateAt(1)
WindowEnd == DateAt(25)

\* The example of the documentation, a second spending for the same date, and
\* a spending for another date.
ExampleBody == SpentBody(<<"1d", "2h", "30m">>, 25)
SameDateBody == SpentBody(<<"2h">>, 25)
OtherDateBody == SpentBody(<<"15m">>, 3)

\* The entries of a discussion: the example created one millisecond before
\* the window, at its start, inside, at its end and one millisecond after it;
\* the second spending inside and after the window; a spending for another
\* date; a spending with no duration, one whose duration is no amount and one
\* of a month and thirty minutes; the
\* system's notes about subtracted time and about a label; a user's note with
\* the text of a spending.
Entries ==
    { SystemNote(ExampleBody, WindowStart - 1),
      SystemNote(ExampleBody, WindowStart),
      SystemNote(ExampleBody, DateAt(3)),
      SystemNote(ExampleBody, WindowEnd),
      SystemNote(ExampleBody, WindowEnd + 1),
      SystemNote(SameDateBody, DateAt(3)),
      SystemNote(SameDateBody, WindowEnd + 1),
      SystemNote(OtherDateBody, DateAt(3)),
      SystemNote(SpentBody(<<>>, 3), DateAt(3)),
      SystemNote(SpentBody(<<"soon">>, 3), DateAt(3)),
      SystemNote(SpentBody(<<"1mo", "30m">>, 3), DateAt(3)),
      SystemNote(<<"subtracted", "1h", "of", "time", "spent", "at", DateWord(3)>>, DateAt(3)),
      SystemNote(<<"added", "~bug", "label">>, DateAt(3)),
      UserNote(ExampleBody, DateAt(3)) }

Discussions == UNION { [1..len -> Entries] : len \in 0..MaxNotes }

\* The whole window and its first boundary day alone.
Windows == { <<WindowStart, WindowEnd>>, <<WindowStart, WindowStart>> }

\* generateBurndownChart is not running.
ChartIdle ==
    /\ pc = "idle"
    /\ error = "none"
    /\ milestone = [title |-> "v1.0", iid |-> 7, startDate |-> StartDate, dueDate |-> StartDate]
    /\ options = [includeOpen |-> FALSE, useEstimate |-> FALSE, storypoints |-> FALSE]
    /\ n = 0
    /\ issue = NoIssue
    /\ branch = "none"
    /\ days = 0
    /\ issuesOpenedByDay = NoArray
    /\ issuesClosedByDay = NoArray
    /\ effortSpentByDay = NoArray
    /\ effortEstimatedByDay = NoArray
    /\ effortSpentByDayNull = Hole
    /\ dayAdded = Null
    /\ dayClosed = Null
    /\ effort = NoEffort
    /\ totalEffort = Num(0)
    /\ remainingEffort = NoArray
    /\ completedTasks = NoArray
    /\ idealBurndown = NoArray
    /\ remainingTasks = NoArray
    /\ labels = <<>>

InitTimeSpent ==
    /\ ChartIdle
    /\ MergeIdle
    /\ tsPc = "called"
    /\ \E d \in Discussions : argIssue = [NoIssue EXCEPT !.discussion = d]
    /\ \E w \in Windows : argStartDate = w[1] /\ argEndDate = w[2]
    /\ tsSpendings = <<>>
    /\ timeSpent = NoEffort

\* getTimeSpent(issue, startDate, endDate), from the call to the return.
GetTimeSpent ==
    /\ tsPc = "called"
    /\ tsSpendings' = Spendings(argIssue.discussion, argStartDate, argEndDate)
    /\ timeSpent' = getTimeSpent(argIssue, argStartDate, argEndDate)
    /\ tsPc' = "returned"
    /\ UNCHANGED <<chart, merge, argIssue, argStartDate, argEndDate>>

NextTimeSpent == GetTimeSpent

SpecTimeSpent == InitTimeSpent /\ [][NextTimeSpent]_vars

\* ------------------------------------------- fetchAndMergeIssueDiscussions
\* The longest issues array.
MaxFetched == 3

\* issue.discussion before and after the assignment.
Undefined == [k |-> "undefined", v |-> <<>>]
Fetched(discussion) == [k |-> "array", v |-> discussion]

\* The issues of two projects as fetchMilestoneIssues returns them; an iid is
\* unique within its project only.
FetchedIssues ==
    { [projectId |-> p, iid |-> k, discussion |-> Undefined] : p \in 1..2, k \in 1..2 }
IssueArrays ==
    { a \in UNION { [1..len -> FetchedIssues] : len \in 0..MaxFetched } :
        \A i \in DOMAIN a, j \in DOMAIN a : a[i] = a[j] => i = j }

\* What api.IssueDiscussions.all(projectId, iid) answers with: the discussion
\* of that issue of that project.
DiscussionOnServer(projectId, iid) ==
    <<UserNote(<<"comment", "on", ToString(projectId) \o "#" \o ToString(iid)>>, StartDate)>>

InitMerge ==
    /\ ChartIdle
    /\ CallIdle
    /\ fmPc = "called"
    /\ fmIssues \in IssueArrays
    /\ apiCalls = <<>>
    /\ fetchState = [i \in DOMAIN fmIssues |-> "none"]

\* issues.map(async issue => ...): every callback runs to its await, which
\* starts the request of its issue; Promise.all of no promise is fulfilled.
CallFetchAndMerge ==
    /\ fmPc = "called"
    /\ apiCalls' = [i \in DOMAIN fmIssues |-> <<fmIssues[i].projectId, fmIssues[i].iid>>]
    /\ fetchState' = [i \in DOMAIN fmIssues |-> "pending"]
    /\ fmPc' = IF fmIssues = <<>> THEN "resolved" ELSE "awaiting"
    /\ UNCHANGED <<chart, call, fmIssues>>

\* Mutant of AllFulfilled: the first fulfilled promise settles the call.
SomeFulfilled(states) == \E i \in DOMAIN states : states[i] = "merged"

\* Promise.all: fulfilled when every promise of the array is.
AllFulfilled(states) == \A i \in DOMAIN states : states[i] = "merged"

\* The request of the i-th issue is answered: the callback assigns
\* issue.discussion and its promise is fulfilled.
Answer(i) ==
    /\ fetchState[i] = "pending"
    /\ fetchState' = [fetchState EXCEPT ![i] = "merged"]
    /\ fmIssues' =
           [fmIssues EXCEPT ![i].discussion =
               Fetched(DiscussionOnServer(apiCalls[i][1], apiCalls[i][2]))]
    /\ fmPc' = IF fmPc = "awaiting" /\ AllFulfilled(fetchState') THEN "resolved" ELSE fmPc
    /\ UNCHANGED <<chart, call, apiCalls>>

\* The request of the i-th issue fails: the await throws, the callback's
\* promise is rejected and so is Promise.all's, once.
Fail(i) ==
    /\ fetchState[i] = "pending"
    /\ fetchState' = [fetchState EXCEPT ![i] = "failed"]
    /\ fmPc' = IF fmPc = "awaiting" THEN "rejected" ELSE fmPc
    /\ UNCHANGED <<chart, call, fmIssues, apiCalls>>

AnswerSome == \E i \in DOMAIN fetchState : Answer(i)
FailSome == \E i \in DOMAIN fetchState : Fail(i)

NextMerge == CallFetchAndMerge \/ AnswerSome \/ FailSome

SpecMerge == InitMerge /\ [][NextMerge]_vars

\* ------------------------------------------------------------- properties
ValidWindow == milestone.startDate <= milestone.dueDate
\* An iteration of the loop over milestoneIssues takes place in this step.
Folds == pc = "loop" /\ n' = n + 1
\* ... and the issue is neither the one that throws nor one that is skipped.
FoldsCounted == Folds /\ branch' \in {"counted", "folded"}

\* The indices of arr' whose element differs from that of arr.
Changed(old, new) ==
    { j \in (DOMAIN old) \cup (DOMAIN new) : Get(old, j) # Get(new, j) \/ j \notin DOMAIN old }

\* a hours as effort units, for a = num / den.
Hours(num, den) == Num((num * UnitsPerHour) \div den)
\* The fraction f is num / den hours.
IsHours(f, num, den) == f.k = "num" /\ f.n * den = num * UnitsPerHour * f.d

\* C1: for a window with startDate <= dueDate, days is
\* ceil((dueDate - startDate) / 1 day) + 1 and, once all items are folded,
\* completedTasks, remainingEffort, idealBurndown, remainingTasks and the
\* labels have exactly days elements each.
C1_SeriesHaveDaysElements ==
    (pc = "resolved" /\ ValidWindow) =>
        /\ (days - 1) * MILLISECONDS_IN_DAY >= milestone.dueDate - milestone.startDate
        /\ (days - 2) * MILLISECONDS_IN_DAY < milestone.dueDate - milestone.startDate
        /\ Length(completedTasks) = days
        /\ Length(remainingEffort) = days
        /\ Length(idealBurndown) = days
        /\ Length(remainingTasks) = days
        /\ Length(labels) = days

\* The scenario of C2: the window 2020-02-01..2020-02-05 in spent mode and one
\* item, entered on day 0, closed on 2020-02-03, with the ledger
\* {total: 10.5, days: {2020-02-03: 10.5}}.
C2_Scenario ==
    /\ pc = "resolved"
    /\ milestone.startDate = ParseDate("2020-02-01")
    /\ milestone.dueDate = ParseDate("2020-02-05")
    /\ ~options.useEstimate
    /\ n = 1
    /\ branch = "folded"
    /\ dayAdded = Num(0)
    /\ issue.closedAt = Num(ParseDate("2020-02-03"))
    /\ effort.total = Hours(21, 2).v
    /\ DOMAIN effort.days = {ParseDate("2020-02-03")}
    /\ effort.days[ParseDate("2020-02-03")] = Hours(21, 2).v

\* C2: in that scenario issuesOpenedByDay = [1,0,0,0,0], issuesClosedByDay =
\* [0,0,1,0,0], effortSpentByDay = [0,0,10.5,0,0], totalEffort = 10.5,
\* remainingEffort = [10.5,10.5,0,0,0] and idealBurndown =
\* [10.5,7.875,5.25,2.625,0].
C2_ScenarioSeries ==
    C2_Scenario =>
        /\ days = 5
        /\ issuesOpenedByDay = [i \in 0..4 |-> IF i = 0 THEN Num(1) ELSE Num(0)]
        /\ issuesClosedByDay = [i \in 0..4 |-> IF i = 2 THEN Num(1) ELSE Num(0)]
        /\ effortSpentByDay = [i \in 0..4 |-> IF i = 2 THEN Hours(21, 2) ELSE Num(0)]
        /\ totalEffort = Hours(21, 2)
        /\ remainingEffort = [i \in 0..4 |-> IF i <= 1 THEN Hours(21, 2) ELSE Num(0)]
        /\ DOMAIN idealBurndown = 0..4
        /\ IsHours(idealBurndown[0], 21, 2)
        /\ IsHours(idealBurndown[1], 63, 8)
        /\ IsHours(idealBurndown[2], 21, 4)
        /\ IsHours(idealBurndown[3], 21, 8)
        /\ IsHours(idealBurndown[4], 0, 1)

C2_Witness == C2_Scenario

\* C3: when an item's discussion holds no system note that changes the
\* milestone to this one, the call signals MissingMilestoneAssignmentEvidence
\* and returns no series.
C3_MissingEvidenceIsSignalled ==
    branch = "threw" =>
        /\ pc = "rejected"
        /\ error = "MissingMilestoneAssignmentEvidence"
        /\ remainingEffort = NoArray
        /\ labels = <<>>

\* C4: an item that is not skipped increments issuesClosedByDay at most once,
\* at an index in 0..days-1; no write at index days or beyond, so the array
\* keeps its days elements.
C4_ClosedIndexInsideWindow ==
    [][FoldsCounted =>
          /\ Changed(issuesClosedByDay, issuesClosedByDay') \subseteq 0..(days - 1)
          /\ Cardinality(Changed(issuesClosedByDay, issuesClosedByDay')) <= 1
          /\ \A j \in Changed(issuesClosedByDay, issuesClosedByDay') :
                 issuesClosedByDay'[j] = Plus(issuesClosedByDay[j], Num(1))
          /\ Length(issuesClosedByDay') = days]_vars

\* clamp(round((date - windowStart) / 1 day), 0, days - 1)
ClampedDay(date) ==
    LET r == RoundDays(date - milestone.startDate)
    IN  IF r < 0 THEN 0 ELSE IF r > days - 1 THEN days - 1 ELSE r

RECURSIVE SumAmounts(_, _)
SumAmounts(ledgerDays, dates) ==
    IF dates = {} THEN 0
    ELSE LET d == CHOOSE x \in dates : TRUE
         IN  ledgerDays[d] + SumAmounts(ledgerDays, dates \ {d})

\* C5: folding a ledger adds every (date, amount) entry at index
\* clamp(round((date - windowStart) / 1 day), 0, days - 1): dates before the
\* window at 0, dates after the due date at days - 1, no other index written.
C5_LedgerFoldedAtClampedDay ==
    [][(Folds /\ branch' = "folded" /\ DOMAIN effort'.days # {}) =>
          /\ DOMAIN effortSpentByDay' = DOMAIN effortSpentByDay
          /\ \A j \in DOMAIN effortSpentByDay' :
                 effortSpentByDay'[j] =
                     Plus(effortSpentByDay[j],
                          Num(SumAmounts(effort'.days,
                                         { d \in DOMAIN effort'.days : ClampedDay(d) = j })))]_vars

\* The exit day of a closed item is negative: round(x) < 0 iff x < -1/2.
ExitDayNegative(i) ==
    /\ i.closedAt # Null
    /\ 2 * (i.closedAt.v - milestone.startDate) < 0 - MILLISECONDS_IN_DAY

\* C6: an item whose entry day is >= days, or which was closed on a negative
\* exit day, leaves the four per-day arrays unchanged; every other item adds
\* exactly 1 to issuesOpenedByDay[entryDay].
C6_SkippedItemsChangeNothing ==
    [][(Folds /\ branch' # "threw") =>
          IF dayAdded'.v >= days \/ ExitDayNegative(issue')
          THEN UNCHANGED <<issuesOpenedByDay, issuesClosedByDay, effortSpentByDay,
                           effortEstimatedByDay>>
          ELSE /\ dayAdded'.v \in DOMAIN issuesOpenedByDay
               /\ issuesOpenedByDay' =
                      [issuesOpenedByDay EXCEPT ![dayAdded'.v] = Plus(@, Num(1))]]_vars

\* An item closed before the start was skipped after another one was counted.
C6_Witness ==
    /\ branch = "skipped"
    /\ n = 2
    /\ ExitDayNegative(issue)
    /\ dayAdded.v < days
    /\ \E j \in DOMAIN issuesOpenedByDay : issuesOpenedByDay[j] = Num(1)

\* The discussion entries whose note is by the system and says that the
\* milestone was changed to this one, by title or by iid.
Assignments(discussion) ==
    { j \in 1..Len(discussion) :
        /\ discussion[j].notes[1].system
        /\ discussion[j].notes[1].body \in {TitleBody(milestone), IidBody(milestone)} }

\* The update timestamp of the most recently updated of them.
NewestAssignment(discussion) ==
    LET at == { discussion[j].notes[1].updatedAt : j \in Assignments(discussion) }
    IN  CHOOSE t \in at : \A u \in at : u <= t

\* max(0, round(x / 1 day)) = r, stated without the rounding operator.
IsClampedRound(x, r) ==
    /\ r >= 0
    /\ 2 * x < ((2 * r) + 1) * MILLISECONDS_IN_DAY
    /\ r > 0 => 2 * x >= ((2 * r) - 1) * MILLISECONDS_IN_DAY

\* C7: the entry day is max(0, round((t - windowStart) / 1 day)) for t the update
\* timestamp of the most recently updated entry whose note is system-generated
\* and whose body is the 'changed milestone to' text of this milestone; older
\* such entries and notes of users with that body do not determine it.
C7_EntryDayFromNewestAssignment ==
    [][(Folds /\ Assignments(issue'.discussion) # {}) =>
          /\ branch' # "threw"
          /\ dayAdded'.k = "num"
          /\ IsClampedRound(NewestAssignment(issue'.discussion) - milestone.startDate,
                            dayAdded'.v)]_vars

\* The item has an older and a newer assignment, and the newer one is the
\* second entry of the discussion as it was fetched (the first after the sort).
C7_Witness ==
    /\ n >= 1
    /\ Cardinality(Assignments(issue.discussion)) = 2
    /\ dayAdded = Num(3)

\* The amounts of the ledger that the fold puts at index j.
AmountAt(ledgerDays, j) ==
    SumAmounts(ledgerDays, { d \in DOMAIN ledgerDays : SpentDay(d, milestone.startDate) = j })

\* C8: a still-open item adds nothing to effortSpentByDay when includeOpen is
\* false; with includeOpen every per-day entry of its ledger is folded in. In
\* both cases it counts in issuesOpenedByDay and effortEstimatedByDay and not in
\* issuesClosedByDay.
C8_OpenItems ==
    [][(FoldsCounted /\ issue'.closedAt = Null) =>
          LET ledger == getEffort(options, issue', milestone.startDate, milestone.dueDate)
              estimate == getEffortEstimate(options, issue').total
          IN
          /\ issuesClosedByDay' = issuesClosedByDay
          /\ issuesOpenedByDay' = [issuesOpenedByDay EXCEPT ![dayAdded'.v] = Plus(@, Num(1))]
          /\ effortEstimatedByDay' =
                 [effortEstimatedByDay EXCEPT ![dayAdded'.v] = Plus(@, Num(estimate))]
          /\ IF options.includeOpen
             THEN \A j \in (DOMAIN effortSpentByDay) \cup (DOMAIN effortSpentByDay') :
                      /\ j \in DOMAIN effortSpentByDay'
                      /\ effortSpentByDay'[j] =
                             IF \E d \in DOMAIN ledger.days : SpentDay(d, milestone.startDate) = j
                             THEN Plus(Get(effortSpentByDay, j), Num(AmountAt(ledger.days, j)))
                             ELSE Get(effortSpentByDay, j)
             ELSE effortSpentByDay' = effortSpentByDay]_vars

\* An open item with a per-day ledger has been folded into day 2.
C8_Witness ==
    /\ branch = "folded"
    /\ issue.closedAt = Null
    /\ options.includeOpen
    /\ DOMAIN effort.days # {}
    /\ 2 \in DOMAIN effortSpentByDay
    /\ effortSpentByDay[2] = Hours(21, 2)

\* C9 as stated: a folded ledger with an empty per-day mapping adds its total
\* to effortSpentByDay[exitDay] when the item has an exit day; for a still-open
\* item, folded because includeOpen is set, no element of effortSpentByDay
\* changes and totalEffort does not change.
C9_EmptyLedgerAsStated ==
    [][(Folds /\ branch' = "folded" /\ DOMAIN effort'.days = {}) =>
          IF issue'.closedAt # Null
          THEN effortSpentByDay' = PlusAssign(effortSpentByDay, dayClosed'.v, Num(effort'.total))
          ELSE /\ effortSpentByDay' = effortSpentByDay
               /\ TotalEffortOf(options, effortEstimatedByDay', effortSpentByDay')
                      = TotalEffortOf(options, effortEstimatedByDay, effortSpentByDay)]_vars

\* C9 as amended: ... for a still-open item no element of effortSpentByDay
\* changes, so totalEffort does not change in spent mode (useEstimate false);
\* with useEstimate the item's estimate is part of totalEffort.
C9_EmptyLedger ==
    [][(Folds /\ branch' = "folded" /\ DOMAIN effort'.days = {}) =>
          IF issue'.closedAt # Null
          THEN effortSpentByDay' = PlusAssign(effortSpentByDay, dayClosed'.v, Num(effort'.total))
          ELSE /\ effortSpentByDay' = effortSpentByDay
               /\ ~options.useEstimate =>
                      TotalEffortOf(options, effortEstimatedByDay', effortSpentByDay')
                          = TotalEffortOf(options, effortEstimatedByDay, effortSpentByDay)
               /\ options.useEstimate =>
                      TotalEffortOf(options, effortEstimatedByDay', effortSpentByDay')
                          = Plus(TotalEffortOf(options, effortEstimatedByDay, effortSpentByDay),
                                 Num(getEffortEstimate(options, issue').total))]_vars

\* Three storypoints of a closed item are on its exit day, and an open item
\* with storypoints has been folded after it.
C9_Witness ==
    /\ branch = "folded"
    /\ n = 2
    /\ options.storypoints
    /\ issue.closedAt = Null
    /\ effort.total > 0
    /\ DOMAIN effort.days = {}
    /\ 2 \in DOMAIN effortSpentByDay
    /\ effortSpentByDay[2] = Num(3 * UnitsPerHour)

\* C10: idealBurndown[0] = totalEffort for every window; for days > 1,
\* idealBurndown[i] = totalEffort - (totalEffort / (days - 1)) * i, which is 0 at
\* days - 1; for days = 1 the series is [totalEffort].
C10_IdealBurndown ==
    (pc = "resolved" /\ ValidWindow /\ IsNum(totalEffort)) =>
        /\ DOMAIN idealBurndown = 0..(days - 1)
        /\ \A i \in 0..(days - 1) :
               /\ idealBurndown[i].k = "num"
               /\ idealBurndown[i].n * Max(days - 1, 1)
                      = ((totalEffort.v * Max(days - 1, 1)) - (totalEffort.v * i))
                            * idealBurndown[i].d
        /\ idealBurndown[0].n = totalEffort.v * idealBurndown[0].d
        /\ days > 1 => idealBurndown[days - 1].n = 0

\* The sum of the elements of arr at the indices in idx.
RECURSIVE SumOver(_, _)
SumOver(arr, idx) ==
    IF idx = {} THEN Num(0)
    ELSE LET j == CHOOSE x \in idx : \A y \in idx : y <= x
         IN  Plus(SumOver(arr, idx \ {j}), arr[j])

\* sum(arr): every element that is present.
Total(arr) == SumOver(arr, { j \in DOMAIN arr : arr[j] # Hole })
\* sum(arr[0..i])
Prefix(arr, i) == SumOver(arr, { j \in DOMAIN arr : j <= i /\ arr[j] # Hole })

C11_Derived ==
    pc = "resolved" =>
        /\ totalEffort = IF options.useEstimate THEN Total(effortEstimatedByDay)
                                                ELSE Total(effortSpentByDay)
        /\ DOMAIN remainingEffort = 0..(days - 1)
        /\ \A i \in 0..(days - 1) :
               remainingEffort[i] =
                   IF options.useEstimate
                   THEN Minus(Prefix(effortEstimatedByDay, i), Prefix(effortSpentByDay, i))
                   ELSE Minus(totalEffort, Prefix(effortSpentByDay, i))

C11_EstimateOfEveryCountedItem ==
    FoldsCounted =>
        /\ dayAdded'.v \in DOMAIN effortEstimatedByDay
        /\ effortEstimatedByDay' =
               [effortEstimatedByDay EXCEPT
                    ![dayAdded'.v] = Plus(@, Num(getEffortEstimate(options, issue').total))]

\* C11: after folding all items, totalEffort is the sum of effortEstimatedByDay
\* when useEstimate is set and the sum of effortSpentByDay otherwise, and for
\* every day i in 0..days-1 remainingEffort[i] is sum(effortEstimatedByDay[0..i])
\* - sum(effortSpentByDay[0..i]) with useEstimate and totalEffort -
\* sum(effortSpentByDay[0..i]) otherwise; effortEstimatedByDay[entryDay] has
\* received the estimate of every item that is not skipped, open or closed.
C11_TotalsAndRemainingEffort ==
    []C11_Derived /\ [][C11_EstimateOfEveryCountedItem]_vars

\* With useEstimate an open item and a closed one were folded and the chart
\* resolved with more estimated than spent on the first day.
C11_Witness ==
    /\ pc = "resolved"
    /\ options.useEstimate
    /\ ~options.includeOpen
    /\ n = 2
    /\ days >= 3
    /\ issue.closedAt = Null
    /\ branch = "counted"
    /\ IsNum(totalEffort) /\ totalEffort.v > 0
    /\ IsNum(remainingEffort[0]) /\ remainingEffort[0].v > 0
    /\ IsNum(remainingEffort[days - 1])
    /\ remainingEffort[days - 1].v < remainingEffort[0].v

\* The sum of totalHours over the spendings at the positions idx.
RECURSIVE HoursOver(_, _)
HoursOver(spent, idx) ==
    IF idx = {} THEN 0
    ELSE LET j == CHOOSE x \in idx : TRUE
         IN  spent[j].totalHours + HoursOver(spent, idx \ {j})

\* The sum of the values of the per-day mapping over the dates keys.
RECURSIVE ValuesOver(_, _)
ValuesOver(mapping, keys) ==
    IF keys = {} THEN 0
    ELSE LET t == CHOOSE x \in keys : TRUE
         IN  mapping[t] + ValuesOver(mapping, keys \ {t})

\* C12: the ledger getTimeSpent returns has as total the sum of totalHours of
\* the matched notes, and its per-day mapping holds for each date the sum of
\* totalHours of all matched notes of that date, so that spendings of one date
\* add up and the per-day values sum to total.
C12_LedgerSumsPerDate ==
    tsPc = "returned" =>
        /\ timeSpent.total = HoursOver(tsSpendings, DOMAIN tsSpendings)
        /\ DOMAIN timeSpent.days = { tsSpendings[j].date : j \in DOMAIN tsSpendings }
        /\ \A t \in DOMAIN timeSpent.days :
              timeSpent.days[t] =
                  HoursOver(tsSpendings, { j \in DOMAIN tsSpendings : tsSpendings[j].date = t })
        /\ ValuesOver(timeSpent.days, DOMAIN timeSpent.days) = timeSpent.total

\* The body reads "added <duration> of time spent at <YYYY-MM-DD>".
IsTimeSpentNote(body) ==
    /\ Len(body) >= 6
    /\ body[1] = "added"
    /\ SubSeq(body, Len(body) - 4, Len(body) - 1) = <<"of", "time", "spent", "at">>
    /\ body[Len(body)] \in DateWords
\* The positions of the discussion entries that are to be counted.
Qualifying ==
    { j \in DOMAIN argIssue.discussion :
        LET note == argIssue.discussion[j].notes[1]
        IN  /\ note.system
            /\ IsTimeSpentNote(note.body)
            /\ argStartDate <= note.createdAt
            /\ note.createdAt <= argEndDate }
RECURSIVE QualifyingHours(_)
QualifyingHours(idx) ==
    IF idx = {} THEN 0
    ELSE LET j == CHOOSE x \in idx : TRUE
         IN  TotalHours(argIssue.discussion[j].notes[1].body) + QualifyingHours(idx \ {j})

\* C13: getTimeSpent counts exactly the discussion entries whose note is by the
\* system, reads "added <duration> of time spent at <date>" and was created at
\* a time t with startDate <= t <= endDate; when there is none, it returns
\* total 0 and an empty per-day mapping.
C13_CountsQualifyingEntries ==
    tsPc = "returned" =>
        /\ Len(tsSpendings) = Cardinality(Qualifying)
        /\ timeSpent.total = QualifyingHours(Qualifying)
        /\ DOMAIN timeSpent.days =
              { ParseDate(argIssue.discussion[j].notes[1].body[Len(argIssue.discussion[j].notes[1].body)]) :
                  j \in Qualifying }
        /\ Qualifying = {} => timeSpent = [total |-> 0, days |-> <<>>]
\* A note created at the very end of the window is counted, the same note
\* created one millisecond later is not.
C13_Witness ==
    /\ tsPc = "returned"
    /\ Len(argIssue.discussion) = 2
    /\ argIssue.discussion[1].notes[1].createdAt = argEndDate
    /\ argIssue.discussion[2].notes[1].createdAt = argEndDate + 1
    /\ argIssue.discussion[2].notes[1].system
    /\ IsTimeSpentNote(argIssue.discussion[2].notes[1].body)
    /\ Qualifying = {1}
    /\ timeSpent.total > 0

\* The words that have a number in front of a unit letter, such as 30m and 1mo.
NumberedWords ==
    { <<ToString(number) \o letter \o rest, letter, number>> :
        number \in 0..MaxNumber, letter \in {"d", "h", "m"}, rest \in {"", "o"} }
\* The number in front of the unit in the duration of the body, 0 when the
\* duration has no such component.
NumberInFront(body, unit, num) ==
    LET duration == SubSeq(body, 2, Len(body) - 5)
    IN  IF \E i \in DOMAIN duration, other \in 0..MaxNumber :
               <<duration[i], unit, other>> \in NumberedWords
        THEN \E i \in DOMAIN duration : <<duration[i], unit, num>> \in NumberedWords
        ELSE num = 0
\* The spending made of the j-th entry of the discussion.
SpendingOfEntry(j) == tsSpendings[Cardinality({ i \in Qualifying : i <= j })]

\* C14: every matched note is converted with
\* totalHours = days * 8 + hours + minutes / 60, each component being the
\* number in front of d, h and m, or 0 when absent, so that a duration with
\* no component gives 0; "added 1d 2h 30m of time spent at 2020-02-25" gives
\* 10.5 hours on 2020-02-25.
C14_TotalHours ==
    tsPc = "returned" =>
        \A j \in Qualifying :
            LET body == argIssue.discussion[j].notes[1].body
            IN  /\ \E d \in { x \in 0..MaxNumber : NumberInFront(body, "d", x) },
                       h \in { x \in 0..MaxNumber : NumberInFront(body, "h", x) },
                       m \in { x \in 0..MaxNumber : NumberInFront(body, "m", x) } :
                      SpendingOfEntry(j).totalHours * 60
                          = ((d * 8) + h) * 60 * UnitsPerHour + (m * UnitsPerHour)
                /\ body = <<"added", "1d", "2h", "30m", "of", "time", "spent", "at", "2020-02-25">>
                      => /\ SpendingOfEntry(j).totalHours * 2 = 21 * UnitsPerHour
                         /\ SpendingOfEntry(j).date = DateAt(25)
\* The example of the documentation and a note with no component were both
\* converted.
C14_Witness ==
    /\ tsPc = "returned"
    /\ Len(argIssue.discussion) = 2
    /\ Qualifying = {1, 2}
    /\ argIssue.discussion[1].notes[1].body
         = <<"added", "1d", "2h", "30m", "of", "time", "spent", "at", "2020-02-25">>
    /\ argIssue.discussion[2].notes[1].body
         = <<"added", "soon", "of", "time", "spent", "at", "2020-02-03">>
    /\ tsSpendings[1].totalHours = 630
    /\ tsSpendings[2].totalHours = 0
    /\ timeSpent.days = (DateAt(25) :> 630) @@ (DateAt(3) :> 0)

\* C15: when dueDate is earlier than startDate, generateBurndownChart raises
\* InvalidWindow before it produces any series, also when dueDate is exactly
\* one day before startDate.
C15_InvalidWindowRaised ==
    (milestone.dueDate < milestone.startDate /\ pc \notin {"start", "idle"}) =>
        /\ pc = "rejected"
        /\ error = "InvalidWindow"
        /\ remainingEffort = NoArray
        /\ completedTasks = NoArray
        /\ idealBurndown = NoArray
        /\ remainingTasks = NoArray

\* No item was counted as closed on a day outside 0..days-1: every exit day
\* that was written is within the window.
ClosesWithinWindow == Length(issuesClosedByDay) <= days

\* C16: when every exit day is within 0..days-1, after folding any items
\* sum(issuesOpenedByDay) >= sum(issuesClosedByDay), and once the series are
\* derived remainingTasks[i] is the sum of issuesOpenedByDay[0..i] minus the
\* sum of issuesClosedByDay[0..i] for every i in 0..days-1, so that
\* remainingTasks[days-1] >= 0.
C16_RemainingTasks ==
    ClosesWithinWindow =>
        /\ pc \in {"loop", "resolved"} =>
              /\ IsNum(Total(issuesOpenedByDay))
              /\ IsNum(Total(issuesClosedByDay))
              /\ Total(issuesOpenedByDay).v >= Total(issuesClosedByDay).v
        /\ pc = "resolved" =>
              /\ DOMAIN remainingTasks = 0..(days - 1)
              /\ \A i \in 0..(days - 1) :
                    remainingTasks[i] =
                        Minus(Prefix(issuesOpenedByDay, i), Prefix(issuesClosedByDay, i))
              /\ days >= 1 => IsNum(remainingTasks[days - 1]) /\ remainingTasks[days - 1].v >= 0
\* Two items were folded, the last one closed on a day of the window before
\* the day it was added, which makes an intermediate element negative.
C16_Witness ==
    /\ pc = "resolved"
    /\ ClosesWithinWindow
    /\ n = 2
    /\ branch = "folded"
    /\ dayClosed # Null
    /\ dayClosed.v >= 0
    /\ dayClosed.v < dayAdded.v
    /\ dayAdded.v <= days - 1
    /\ remainingTasks[dayClosed.v].v < 0
    /\ remainingTasks[days - 1].v >= 0
    /\ Total(issuesClosedByDay).v = 2

\* The item has no logged time, no spending note and no storypoints label.
CarriesNoEffort(anIssue) ==
    /\ anIssue.timeStats.totalTimeSpent = 0
    /\ \A j \in DOMAIN anIssue.discussion : ~IsSpendingBody(anIssue.discussion[j].notes[1].body)
    /\ \A j \in DOMAIN anIssue.labels : ~IsStorypointsLabel(anIssue.labels[j])
\* Every element of the series is the number 0.
AllZero(aSeries) == \A i \in DOMAIN aSeries : aSeries[i] = Num(0)
IdealAllZero == \A i \in DOMAIN idealBurndown : idealBurndown[i].k = "num" /\ idealBurndown[i].n = 0

\* C17: for every window with startDate <= dueDate, the single-day window
\* included, an empty collection gives series of days elements that are all
\* the number 0, and a collection of items without any effort gives a
\* remainingEffort and an idealBurndown that are all 0; no element is
\* undefined or NaN.
C17_DegenerateSeriesAreZero ==
    (pc = "resolved" /\ ValidWindow) =>
        /\ n = 0 =>
              /\ DOMAIN remainingEffort = 0..(days - 1)
              /\ DOMAIN idealBurndown = 0..(days - 1)
              /\ DOMAIN remainingTasks = 0..(days - 1)
              /\ DOMAIN completedTasks = 0..(days - 1)
              /\ AllZero(remainingEffort)
              /\ IdealAllZero
              /\ AllZero(remainingTasks)
              /\ AllZero(completedTasks)
        /\ (n = 1 /\ CarriesNoEffort(issue)) =>
              /\ AllZero(remainingEffort)
              /\ IdealAllZero

\* C18: when useEstimate is false, remainingEffort does not increase from one
\* day to the next and its last element, remainingEffort[days-1], is 0: all
\* the effort counted in totalEffort is in the prefix sum up to the last day.
C18_SpentBurnsDownToZero ==
    (pc = "resolved" /\ ~options.useEstimate /\ days >= 1) =>
        /\ \A i \in 0..(days - 1) : IsNum(remainingEffort[i])
        /\ \A i \in 0..(days - 2) : remainingEffort[i].v >= remainingEffort[i + 1].v
        /\ remainingEffort[days - 1] = Num(0)

\* The i-th issue holds the discussion the server has for that very issue.
HoldsOwnDiscussion(i) ==
    fmIssues[i].discussion = Fetched(DiscussionOnServer(fmIssues[i].projectId, fmIssues[i].iid))

\* C19: fetchAndMergeIssueDiscussions starts one fetch per issue, all of them
\* before any is answered, and resolves only when all are answered; whatever
\* the order of the answers, each issue then holds the discussion fetched for
\* that same issue; and when a fetch fails the call is rejected, not resolved.
C19_AllMergedOrRejected ==
    /\ fmPc \in {"awaiting", "resolved", "rejected"} =>
          /\ Len(apiCalls) = Len(fmIssues)
          /\ \A i \in DOMAIN fmIssues :
                /\ apiCalls[i] = <<fmIssues[i].projectId, fmIssues[i].iid>>
                /\ fetchState[i] # "none"
                /\ fetchState[i] = "merged" => HoldsOwnDiscussion(i)
                /\ fetchState[i] # "merged" => fmIssues[i].discussion = Undefined
    /\ fmPc = "resolved" =>
          \A i \in DOMAIN fmIssues : fetchState[i] = "merged" /\ HoldsOwnDiscussion(i)
    /\ (\E i \in DOMAIN fetchState : fetchState[i] = "failed") => fmPc = "rejected"
\* Three issues, two of them with the same iid in different projects, were
\* all merged and the call has resolved.
C19_Witness ==
    /\ fmPc = "resolved"
    /\ Len(fmIssues) = 3
    /\ fmIssues[1].iid = fmIssues[3].iid
    /\ fmIssues[1].projectId # fmIssues[3].projectId
    /\ \A i \in 1..3 : HoldsOwnDiscussion(i)
    /\ fmIssues[1].discussion # fmIssues[3].discussion
====
